---- MODULE Spec2Model ----
(***************************************************************************)
(* pyvmg: conversion of a directory of .vmg message files into one txt,    *)
(* csv or xml file (src/pyvmg.py).                                         *)
(*                                                                         *)
(* A text is a sequence of one-character strings.  Three kinds of element  *)
(* stand for something a TLA+ string literal cannot spell or that is       *)
(* copied through unchanged: NUL is chr(0); the literal pieces of the txt  *)
(* and xml templates are one element each; a file path is the three        *)
(* elements <<directory, "/", file name>>.                                 *)
(***************************************************************************)
EXTENDS Integers, Sequences, FiniteSets, TLC

VARIABLES
    in_dir,          \* args.in_dir as the file system shows it: per argument, is it a directory and its *.vmg files in glob order
    out_ext,         \* the extension of args.out_filename
    pc,              \* position in main()
    error,           \* the exception that ended main(), "none" if none
    writer,          \* class of the writer object: "none", "txt", "csv", "xml"
    opened,          \* Writer.__init__ has opened (created or truncated) the output file
    file,            \* content of the output file
    single_dir,      \* index in args.in_dir of main()'s loop
    messages,        \* writer.messages
    reader_message,  \* reader.message, the text of the file read last
    msg,             \* processdir's msg, the record of the file processed last
    globbed,         \* the directories glob.glob has enumerated, in order
    readlog          \* the paths reader.read has opened, in order

vars == <<in_dir, out_ext, pc, error, writer, opened, file, single_dir,
          messages, reader_message, msg, globbed, readlog>>

----------------------------------------------------------------------------
(* Bounds of the model *)

\* at most this many --in_dir arguments
MaxDirs == 2
\* at most this many .vmg files in all the input directories together
MaxFiles == 2
\* a file content of the reader specifications is made of at most this many fragments
MaxFrags == 4

----------------------------------------------------------------------------
(* Characters and texts *)

NUL == "NUL"

Digits == {"0", "1", "2", "3", "4", "5", "6", "7", "8", "9"}

DigitChars == <<"0", "1", "2", "3", "4", "5", "6", "7", "8", "9">>

Letters ==
    {"a", "b", "c", "d", "e", "f", "g", "h", "i", "j", "k", "l", "m",
     "n", "o", "p", "q", "r", "s", "t", "u", "v", "w", "x", "y", "z",
     "A", "B", "C", "D", "E", "F", "G", "H", "I", "J", "K", "L", "M",
     "N", "O", "P", "Q", "R", "S", "T", "U", "V", "W", "X", "Y", "Z"}

\* the class \w
WordChars == Letters \cup Digits \cup {"_"}

\* the class [\dTZ]
DateTokenChars == Digits \cup {"T", "Z"}

\* the class [\d.: ]
DateLineChars == Digits \cup {".", ":", " "}

DigitVal(c) == CHOOSE n \in 0..9 : DigitChars[n + 1] = c

\* s[i..] starts with p
StartsWithAt(s, i, p) ==
    /\ i + Len(p) - 1 <= Len(s)
    /\ \A j \in 1..Len(p) : s[i + j - 1] = p[j]

Min(S) == CHOOSE x \in S : \A y \in S : x <= y
Max(S) == CHOOSE x \in S : \A y \in S : x >= y

\* index after the longest run of characters of class that starts at i (a
\* greedy class+ or class*)
RunEnd(s, i, class) ==
    LET stops == {j \in i..Len(s) : s[j] \notin class}
    IN  IF stops = {} THEN Max({i, Len(s) + 1}) ELSE Min(stops)

\* the concatenation of the texts ss[lo], ..., ss[hi]
RECURSIVE FlattenRange(_, _, _)
FlattenRange(ss, lo, hi) ==
    IF lo > hi THEN <<>>
    ELSE IF lo = hi THEN ss[lo]
    ELSE FlattenRange(ss, lo, (lo + hi) \div 2)
         \o FlattenRange(ss, ((lo + hi) \div 2) + 1, hi)

Flatten(ss) == FlattenRange(ss, 1, Len(ss))

\* str.replace(old, new).  Every old of the program is a single character or
\* two different characters, so no two occurrences overlap and each one is
\* replaced: a character inside an occurrence goes, the others stay
Replace(s, old, new) ==
    Flatten([j \in 1..Len(s) |->
                IF StartsWithAt(s, j, old) THEN new
                ELSE IF \E k \in 1..(Len(old) - 1) : j > k /\ StartsWithAt(s, j - k, old)
                     THEN <<>>
                     ELSE <<s[j]>>])

\* s[:-1]
ButLast(s) == IF Len(s) = 0 THEN <<>> ELSE SubSeq(s, 1, Len(s) - 1)

----------------------------------------------------------------------------
(* escapexml *)

Amp == <<"&">>
AmpEntity == <<"&", "a", "m", "p", ";">>
LtEntity == <<"&", "l", "t", ";">>
GtEntity == <<"&", "g", "t", ";">>
QuotEntity == <<"&", "q", "u", "o", "t", ";">>
\* the two characters the source spells for the currency sign, and a-umlaut
CurrenChars == <<"A_circumflex", "currency_sign">>
CurrenEntity == <<"&", "c", "u", "r", "r", "e", "n", ";">>
AumlChar == <<"a_umlaut">>
AumlEntity == <<"&", "a", "u", "m", "l", ";">>

escapexml(xmldata) ==
    LET x1 == Replace(xmldata, Amp, AmpEntity)
        x2 == Replace(x1, <<"<">>, LtEntity)
        x3 == Replace(x2, <<">">>, GtEntity)
        x4 == Replace(x3, <<"\"">>, QuotEntity)
        x5 == Replace(x4, CurrenChars, CurrenEntity)
    IN  Replace(x5, AumlChar, AumlEntity)

----------------------------------------------------------------------------
(* VMGReader *)

TelMarker == <<"T", "E", "L", ":">>
DateMarker == <<"X", "-", "N", "O", "K", "-", "D", "T", ":">>
DateLineMarker == <<"D", "a", "t", "e", ":">>
EndBody == <<"E", "N", "D", ":", "V", "B", "O", "D", "Y">>

\* VMGReader.read: the text of the file without its NUL characters
read(content) == Replace(content, <<NUL>>, <<>>)

\* the group (\w+|\+?\d+) tried at index i: the index after it, 0 if it does not match
TelGroupEnd(s, i) ==
    IF i <= Len(s) /\ s[i] \in WordChars
    THEN RunEnd(s, i, WordChars)
    ELSE LET j == IF i <= Len(s) /\ s[i] = "+" THEN i + 1 ELSE i
         IN  IF j <= Len(s) /\ s[j] \in Digits THEN RunEnd(s, j, Digits) ELSE 0

\* TEL_RE tried at index i: the captured group, <<>> if no match there
TelMatchAt(s, i) ==
    IF StartsWithAt(s, i, TelMarker) /\ TelGroupEnd(s, i + 4) # 0
    THEN SubSeq(s, i + 4, TelGroupEnd(s, i + 4) - 1)
    ELSE <<>>

\* a search that gives up when the first TEL: of the text has no token
TelSearch_firstMarkerOnly(s) ==
    LET marks == {i \in 1..Len(s) : StartsWithAt(s, i, TelMarker)}
    IN  IF marks = {} THEN <<>> ELSE TelMatchAt(s, Min(marks))

\* TEL_RE.search and data['contact']: the group of the leftmost match, <<>> if
\* there is none
TelSearch(s) ==
    LET hits == {i \in 1..Len(s) : TelMatchAt(s, i) # <<>>}
    IN  IF hits = {} THEN <<>> ELSE TelMatchAt(s, Min(hits))

\* DATE_RE tried at index i: the captured group, <<>> if no match there
DateMatchAt(s, i) ==
    IF StartsWithAt(s, i, DateMarker) /\ RunEnd(s, i + 9, DateTokenChars) > i + 9
    THEN SubSeq(s, i + 9, RunEnd(s, i + 9, DateTokenChars) - 1)
    ELSE <<>>

\* DATE_RE.search: the group of the leftmost match, <<>> if there is none
DateSearch(s) ==
    LET hits == {i \in 1..Len(s) : DateMatchAt(s, i) # <<>>}
    IN  IF hits = {} THEN <<>> ELSE DateMatchAt(s, Min(hits))

\* the prefix Date:[\d.: ]+\n tried at index i: the index where the group starts, 0 if it does not match
BodyGroupStart(s, i) ==
    LET e == RunEnd(s, i + 5, DateLineChars)
    IN  IF /\ StartsWithAt(s, i, DateLineMarker)
           /\ e > i + 5
           /\ e <= Len(s)
           /\ s[e] = "\n"
        THEN e + 1
        ELSE 0

\* (.*)END:VBODY with DOTALL from index g: the greedy group runs to the last
\* END:VBODY at or after g; the index where that marker starts, 0 if there is none
BodyGroupEnd(s, g) ==
    LET ends == {p \in g..Len(s) : StartsWithAt(s, p, EndBody)}
    IN  IF ends = {} THEN 0 ELSE Max(ends)

\* BODY_RE matches at index i
BodyMatchesAt(s, i) ==
    /\ BodyGroupStart(s, i) # 0
    /\ BodyGroupEnd(s, BodyGroupStart(s, i)) # 0

\* BODY_RE.search and data['body']: group 1 of the leftmost match, <<>> if there is none
BodySearch(s) ==
    LET hits == {i \in 1..Len(s) : BodyMatchesAt(s, i)}
        g == BodyGroupStart(s, Min(hits))
    IN  IF hits = {} THEN <<>> ELSE SubSeq(s, g, BodyGroupEnd(s, g) - 1)

----------------------------------------------------------------------------
(* datetime.strptime(token, '%Y%m%dT%H%M%SZ') and strftime *)

\* the number a text of digits spells
RECURSIVE Num(_)
Num(t) == IF Len(t) = 0 THEN 0 ELSE 10 * Num(ButLast(t)) + DigitVal(t[Len(t)])

AllDigits(t) == \A j \in 1..Len(t) : t[j] \in Digits

\* the directive regexes of _strptime, per length of the text they take
MonthRe(t) == AllDigits(t) /\ \/ Len(t) = 2 /\ Num(t) \in 1..12
                              \/ Len(t) = 1 /\ Num(t) \in 1..9
DayRe(t) == AllDigits(t) /\ \/ Len(t) = 2 /\ Num(t) \in 1..31
                            \/ Len(t) = 1 /\ Num(t) \in 1..9
HourRe(t) == AllDigits(t) /\ \/ Len(t) = 2 /\ Num(t) \in 0..23
                             \/ Len(t) = 1
MinuteRe(t) == AllDigits(t) /\ \/ Len(t) = 2 /\ Num(t) \in 0..59
                               \/ Len(t) = 1
SecondRe(t) == AllDigits(t) /\ \/ Len(t) = 2 /\ Num(t) \in 0..61
                               \/ Len(t) = 1

\* the lengths the regex tries for %m%d and for %H%M%S, in its backtracking
\* order: each directive takes two digits first, then one
DateSplits == << <<2, 2>>, <<2, 1>>, <<1, 2>>, <<1, 1>> >>
TimeSplits == << <<2, 2, 2>>, <<2, 2, 1>>, <<2, 1, 2>>, <<2, 1, 1>>,
                 <<1, 2, 2>>, <<1, 2, 1>>, <<1, 1, 2>>, <<1, 1, 1>> >>

IsLeap(y) == (y % 4 = 0 /\ y % 100 # 0) \/ y % 400 = 0

DaysInMonth(y, m) ==
    IF m = 2 THEN (IF IsLeap(y) THEN 29 ELSE 28)
    ELSE IF m \in {4, 6, 9, 11} THEN 30 ELSE 31

NoDate == [ok |-> FALSE, year |-> 0, month |-> 0, day |-> 0,
           hour |-> 0, minute |-> 0, second |-> 0]

\* datetime.datetime(1970, 1, 1, 0, 0)
Epoch == [ok |-> TRUE, year |-> 1970, month |-> 1, day |-> 1,
          hour |-> 0, minute |-> 0, second |-> 0]

\* strptime: ok is FALSE where it raises ValueError
strptime(t) ==
    LET tpos == RunEnd(t, 5, Digits)      \* where the literal T has to be
        zpos == RunEnd(t, tpos + 1, Digits) \* where the literal Z has to be
        shape == /\ Len(t) >= 5
                 /\ AllDigits(SubSeq(t, 1, 4))
                 /\ tpos <= Len(t) /\ t[tpos] = "T"
                 /\ zpos <= Len(t) /\ t[zpos] = "Z"
        dsplit(k) == /\ DateSplits[k][1] + DateSplits[k][2] = tpos - 5
                     /\ MonthRe(SubSeq(t, 5, 4 + DateSplits[k][1]))
                     /\ DayRe(SubSeq(t, 5 + DateSplits[k][1], tpos - 1))
        tsplit(k) == /\ TimeSplits[k][1] + TimeSplits[k][2] + TimeSplits[k][3] = zpos - tpos - 1
                     /\ HourRe(SubSeq(t, tpos + 1, tpos + TimeSplits[k][1]))
                     /\ MinuteRe(SubSeq(t, tpos + 1 + TimeSplits[k][1],
                                        tpos + TimeSplits[k][1] + TimeSplits[k][2]))
                     /\ SecondRe(SubSeq(t, tpos + 1 + TimeSplits[k][1] + TimeSplits[k][2], zpos - 1))
        ds == {k \in 1..Len(DateSplits) : dsplit(k)}
        ts == {k \in 1..Len(TimeSplits) : tsplit(k)}
    IN  IF ~shape \/ ds = {} \/ ts = {}
        THEN NoDate                        \* does not match format
        ELSE IF zpos # Len(t)
        THEN NoDate                        \* unconverted data remains
        ELSE LET d == DateSplits[Min(ds)]
                 h == TimeSplits[Min(ts)]
                 year == Num(SubSeq(t, 1, 4))
                 month == Num(SubSeq(t, 5, 4 + d[1]))
                 day == Num(SubSeq(t, 5 + d[1], tpos - 1))
                 hour == Num(SubSeq(t, tpos + 1, tpos + h[1]))
                 minute == Num(SubSeq(t, tpos + 1 + h[1], tpos + h[1] + h[2]))
                 second == Num(SubSeq(t, tpos + 1 + h[1] + h[2], zpos - 1))
             IN  IF year < 1 \/ day > DaysInMonth(year, month) \/ second > 59
                 THEN NoDate               \* the datetime constructor refuses the value
                 ELSE [ok |-> TRUE, year |-> year, month |-> month, day |-> day,
                       hour |-> hour, minute |-> minute, second |-> second]

\* the decimal digits of n
RECURSIVE Decimal(_)
Decimal(n) == IF n < 10 THEN <<DigitChars[n + 1]>>
              ELSE Decimal(n \div 10) \o <<DigitChars[(n % 10) + 1]>>

\* %m, %d, %H, %M, %S: two digits
TwoDigits(n) == <<DigitChars[(n \div 10) + 1], DigitChars[(n % 10) + 1]>>

\* strftime(DATETIME_FORMAT), '%Y-%m-%d %H:%M:%S'; the C library's %Y does not pad
strftime(dt) ==
    Decimal(dt.year) \o <<"-">> \o TwoDigits(dt.month) \o <<"-">> \o TwoDigits(dt.day)
    \o <<" ">> \o TwoDigits(dt.hour) \o <<":">> \o TwoDigits(dt.minute)
    \o <<":">> \o TwoDigits(dt.second)

\* data['date'] when the marker is absent: a reader that forgot the else branch
DateOf_noElse(s) ==
    IF DateSearch(s) # <<>> /\ strptime(DateSearch(s)).ok
    THEN strptime(DateSearch(s))
    ELSE IF DateSearch(s) # <<>> THEN Epoch ELSE NoDate

\* data['date'] of VMGReader.process
DateOf(s) ==
    IF DateSearch(s) # <<>>
    THEN IF strptime(DateSearch(s)).ok THEN strptime(DateSearch(s)) ELSE Epoch
    ELSE Epoch

\* VMGReader.process on reader.message
process(s) ==
    [contact |-> TelSearch(s), date |-> DateOf(s), body |-> BodySearch(s)]

----------------------------------------------------------------------------
(* Writer.processdir *)

DirNames == <<"dir1", "dir2", "dir3", "dir4", "dir5", "dir6">>
FileNames == <<"1.vmg", "2.vmg", "3.vmg", "4.vmg", "5.vmg", "6.vmg", "7.vmg", "8.vmg">>

\* glob.glob(dirpath + '/*.vmg'): the paths of the directory's .vmg files
glob(k) == [j \in 1..Len(in_dir[k].files) |-> <<DirNames[k], "/", FileNames[j]>>]

\* the place of a path in its directory's enumeration
FileIndex(path) == CHOOSE j \in 1..Len(FileNames) : FileNames[j] = path[3]

\* the msg dictionary of the j-th file of directory k, as line 93 leaves it
MsgOf(k, j) ==
    LET data == process(read(in_dir[k].files[j]))
    IN  [contact |-> data.contact, date |-> strftime(data.date),
         body |-> data.body, file |-> glob(k)[j]]

\* a check that looks at the contact only
HasEmptyValue_contactOnly(m) == m.contact = <<>>

\* any(v == '' for v in msg.values())
HasEmptyValue(m) ==
    m.contact = <<>> \/ m.date = <<>> \/ m.body = <<>> \/ m.file = <<>>

\* rank of a character of a formatted date in code point order
CodeOrder == <<" ", "-", "0", "1", "2", "3", "4", "5", "6", "7", "8", "9", ":">>
Ord(c) == CHOOSE n \in 1..Len(CodeOrder) : CodeOrder[n] = c

\* a < b for two str values: at the first index where they differ, or a is
\* a proper prefix of b
StrLess(a, b) ==
    LET diff == {j \in 1..Min({Len(a), Len(b)}) : a[j] # b[j]}
    IN  IF diff = {} THEN Len(a) < Len(b)
        ELSE Ord(a[Min(diff)]) < Ord(b[Min(diff)])

\* an insertion that puts m before the records of equal date
InsertByDate_beforeEqual(sorted, m) ==
    LET n == Cardinality({j \in 1..Len(sorted) : StrLess(sorted[j].date, m.date)})
    IN  SubSeq(sorted, 1, n) \o <<m>> \o SubSeq(sorted, n + 1, Len(sorted))

\* one step of list.sort on a short list (binary insertion): m goes after the
\* records whose date is not greater
InsertByDate(sorted, m) ==
    LET n == Cardinality({j \in 1..Len(sorted) : ~StrLess(m.date, sorted[j].date)})
    IN  SubSeq(sorted, 1, n) \o <<m>> \o SubSeq(sorted, n + 1, Len(sorted))

\* self.messages.sort(key=itemgetter('date'))
RECURSIVE SortByDate(_)
SortByDate(ms) ==
    IF Len(ms) = 0 THEN <<>>
    ELSE InsertByDate(SortByDate(ButLast(ms)), ms[Len(ms)])

\* the loop of lines 88-97 over the first n files of directory k
RECURSIVE Retained(_, _)
Retained(k, n) ==
    IF n = 0 THEN <<>>
    ELSE IF HasEmptyValue(MsgOf(k, n)) THEN Retained(k, n - 1)
         ELSE Append(Retained(k, n - 1), MsgOf(k, n))

\* a processdir that does not start from an empty list
ProcessdirMessages_noReset(k) ==
    SortByDate(messages \o Retained(k, Len(in_dir[k].files)))

\* self.messages when processdir(in_dir[k]) returns
ProcessdirMessages(k) == SortByDate(Retained(k, Len(in_dir[k].files)))

NoMsg == [contact |-> <<>>, date |-> <<>>, body |-> <<>>, file |-> <<>>]

----------------------------------------------------------------------------
(* The writers *)

\* the literal pieces of TextWriter's template
TxtHead == "=============================\nFile        : "
TxtContact == "\nContact     : "
TxtDate == "\nDate        : "
TxtMessage == "\nMessage     :\n"
TxtFoot == "\n=============================\n"

\* the literal pieces of XMLWriter's strings
XmlRootOpen == "<messages>"
XmlRootClose == "</messages>"
XmlFile == "\n  <message>\n    <file>\n      "
XmlContact == "\n    </file>\n    <contact>"
XmlDate == "</contact>\n    <date>"
XmlBody == "</date>\n    <body>\n      "
XmlFoot == "\n    </body>\n  </message>"

TextRecord(m) ==
    <<TxtHead>> \o m.file \o <<TxtContact>> \o m.contact \o <<TxtDate>> \o m.date
    \o <<TxtMessage>> \o m.body \o <<TxtFoot>>

\* TextWriter.write: what it writes to self.file
TextWrite(ms) == Flatten([j \in 1..Len(ms) |-> TextRecord(ms[j])])

XmlRecord(m) ==
    <<XmlFile>> \o m.file \o <<XmlContact>> \o m.contact \o <<XmlDate>> \o m.date
    \o <<XmlBody>> \o ButLast(escapexml(m.body)) \o <<XmlFoot>>

\* XMLWriter.write: xmlstr
XmlWrite(ms) ==
    <<XmlRootOpen>> \o Flatten([j \in 1..Len(ms) |-> XmlRecord(ms[j])]) \o <<XmlRootClose>>

CsvHeader == << <<"c", "o", "n", "t", "a", "c", "t">>, <<"d", "a", "t", "e">>,
                <<"b", "o", "d", "y">> >>

\* csv.writer, excel dialect: a field is quoted when it holds the delimiter,
\* the quote character or a character of the line terminator
CsvField(f) ==
    IF \E j \in 1..Len(f) : f[j] \in {",", "\"", "\r", "\n"}
    THEN <<"\"">> \o Replace(f, <<"\"">>, <<"\"", "\"">>) \o <<"\"">>
    ELSE f

\* writerow((a, b, c))
CsvRow(row) ==
    CsvField(row[1]) \o <<",">> \o CsvField(row[2]) \o <<",">> \o CsvField(row[3])
    \o <<"\r", "\n">>

\* CSVWriter.write
CsvWrite(ms) ==
    CsvRow(CsvHeader)
    \o Flatten([j \in 1..Len(ms) |-> CsvRow(<<ms[j].contact, ms[j].date, ms[j].body>>)])

\* writer.write() of the writer class chosen in main()
WriteOut(kind, ms) ==
    IF kind = "txt" THEN TextWrite(ms)
    ELSE IF kind = "csv" THEN CsvWrite(ms)
    ELSE XmlWrite(ms)

----------------------------------------------------------------------------
(* main *)

\* what the output file held before the run
OldContent == <<"previous content">>

Extensions == {".txt", ".csv", ".xml", ".pdf"}

KindOf(ext) ==
    IF ext = ".txt" THEN "txt" ELSE IF ext = ".csv" THEN "csv"
    ELSE IF ext = ".xml" THEN "xml" ELSE "none"

\* read_cmd_args that takes any string as an --in_dir
read_cmd_args_noCheck ==
    /\ pc = "read_cmd_args"
    /\ pc' = "select_writer"
    /\ UNCHANGED <<in_dir, out_ext, error, writer, opened, file, single_dir,
                   messages, reader_message, msg, globbed, readlog>>

\* read_cmd_args: argparse converts every --in_dir with dir_path
read_cmd_args ==
    /\ pc = "read_cmd_args"
    /\ IF \A k \in 1..Len(in_dir) : in_dir[k].isdir
       THEN pc' = "select_writer" /\ error' = error
       ELSE pc' = "failed" /\ error' = "NotADirectoryError"
    /\ UNCHANGED <<in_dir, out_ext, writer, opened, file, single_dir,
                   messages, reader_message, msg, globbed, readlog>>

\* main, lines 190-199: the extension selects the writer, whose constructor
\* opens the output file for writing
select_writer ==
    /\ pc = "select_writer"
    /\ IF KindOf(out_ext) # "none"
       THEN /\ writer' = KindOf(out_ext)
            /\ opened' = TRUE
            /\ file' = <<>>
            /\ pc' = "processdir"
            /\ error' = error
       ELSE /\ pc' = "failed"
            /\ error' = "Exception"
            /\ UNCHANGED <<writer, opened, file>>
    /\ UNCHANGED <<in_dir, out_ext, single_dir, messages, reader_message, msg,
                   globbed, readlog>>

\* writer.processdir(single_dir)
processdir ==
    /\ pc = "processdir"
    /\ LET files == in_dir[single_dir].files
           n == Len(files)
       IN  /\ globbed' = Append(globbed, single_dir)
           /\ readlog' = readlog \o glob(single_dir)
           /\ reader_message' = IF n = 0 THEN reader_message ELSE read(files[n])
           /\ msg' = IF n = 0 THEN msg ELSE MsgOf(single_dir, n)
           /\ messages' = ProcessdirMessages(single_dir)
    /\ pc' = "write"
    /\ UNCHANGED <<in_dir, out_ext, error, writer, opened, file, single_dir>>

\* writer.write(), and the step of main()'s loop to the next directory
write ==
    /\ pc = "write"
    /\ file' = file \o WriteOut(writer, messages)
    /\ IF single_dir < Len(in_dir)
       THEN single_dir' = single_dir + 1 /\ pc' = "processdir"
       ELSE single_dir' = single_dir /\ pc' = "done"
    /\ UNCHANGED <<in_dir, out_ext, error, writer, opened, messages,
                   reader_message, msg, globbed, readlog>>

Next == read_cmd_args \/ select_writer \/ processdir \/ write

----------------------------------------------------------------------------
(* Inputs *)

\* a record with all four markers, as a phone stores it (NUL characters between the characters of the TEL line)
SampleKept ==
    <<"T", NUL, "E", NUL, "L", NUL, ":", NUL, "+", NUL, "1", NUL, "\n", "X",
      "-", "N", "O", "K", "-", "D", "T", ":", "2", "0", "0", "8", "0", "5",
      "2", "6", "T", "1", "2", "4", "2", "3", "2", "Z", "\n", "D", "a", "t",
      "e", ":", "2", "6", ".", "0", "5", ".", "2", "0", "0", "8", " ", "1",
      "2", ":", "4", "2", ":", "3", "2", "\n", "a", "<", "\"", "b", "\"",
      ">", "&", ",", "c", "\n", "E", "N", "D", ":", "V", "B", "O", "D", "Y",
      "\n">>

\* contact and body, a malformed timestamp token, no line break before END:VBODY
SampleKeptNoDate ==
    <<"T", "E", "L", ":", "B", "o", "b", "\n", "X", "-", "N", "O", "K", "-",
      "D", "T", ":", "2", "0", "0", "8", "\n", "D", "a", "t", "e", ":", "1",
      "\n", "<", "s", "c", "r", "i", "p", "t", ">", "E", "N", "D", ":", "V",
      "B", "O", "D", "Y">>

\* a valid timestamp and a body, no TEL marker
SampleNoContact ==
    <<"X", "-", "N", "O", "K", "-", "D", "T", ":", "2", "0", "0", "7", "0",
      "1", "0", "1", "T", "0", "0", "0", "0", "0", "0", "Z", "\n", "D", "a",
      "t", "e", ":", "1", "\n", "h", "i", "\n", "E", "N", "D", ":", "V", "B",
      "O", "D", "Y">>

\* a contact, an empty body, no timestamp marker
SampleNoBody ==
    <<"T", "E", "L", ":", "5", "\n", "D", "a", "t", "e", ":", "1", "\n", "E",
      "N", "D", ":", "V", "B", "O", "D", "Y">>

TelLine ==
    <<"T", "E", "L", ":", "1", "\n">>

BodyLines ==
    <<"\n", "D", "a", "t", "e", ":", "1", "\n", "h", "i", "\n", "E", "N",
      "D", ":", "V", "B", "O", "D", "Y">>

\* the pieces the contents of SpecTel are made of
TelFrags ==
    {<<"T", "E", "L", ":">>,
     <<"+">>,
     <<"1">>,
     <<"a">>,
     <<"\n">>,
     <<NUL>>}

\* the pieces the contents of SpecDate are made of
DateFrags ==
    {<<"X", "-", "N", "O", "K", "-", "D", "T", ":">>,
     <<"2", "0", "0", "8">>,
     <<"0", "5", "2", "6">>,
     <<"0", "2", "3", "0">>,
     <<"T", "1", "2", "4", "2", "3", "2", "Z">>,
     <<"T", "1", "2", "3", "Z">>}

\* the pieces the contents of SpecBody are made of
BodyFrags ==
    {<<"D", "a", "t", "e", ":", "1", "\n">>,
     <<"D", "a", "t", "e", ":">>,
     <<"1">>,
     <<"\n">>,
     <<"h", "i">>,
     <<"E", "N", "D", ":", "V", "B", "O", "D", "Y">>}

SampleFiles == {SampleKept, SampleKeptNoDate, SampleNoContact, SampleNoBody}

\* the texts made of at most n pieces
RECURSIVE Compose(_, _)
Compose(frags, n) ==
    IF n = 0 THEN {<<>>}
    ELSE LET shorter == Compose(frags, n - 1)
         IN  shorter \cup {c \o f : c \in shorter, f \in frags}

\* the sequences of at most n of the given files
RECURSIVE Listings(_, _)
Listings(contents, n) ==
    IF n = 0 THEN {<<>>}
    ELSE LET shorter == Listings(contents, n - 1)
         IN  shorter \cup {Append(l, c) : l \in shorter, c \in contents}

NotADir == [isdir |-> FALSE, files |-> <<>>]

Dir(listing) == [isdir |-> TRUE, files |-> listing]

\* the argument lists of exactly n paths, each a directory or not, whose
\* directories hold at most budget files in all
RECURSIVE InDirs(_, _)
InDirs(n, budget) ==
    IF n = 0 THEN {<<>>}
    ELSE {<<NotADir>> \o rest : rest \in InDirs(n - 1, budget)}
         \cup UNION {{<<Dir(l)>> \o rest : rest \in InDirs(n - 1, budget - Len(l))}
                     : l \in Listings(SampleFiles, budget)}

\* one directory that holds one file
OneFile(contents) == {<<Dir(<<c>>)>> : c \in contents}

InitWith(dirs, exts) ==
    /\ in_dir \in dirs
    /\ out_ext \in exts
    /\ pc = "read_cmd_args"
    /\ error = "none"
    /\ writer = "none"
    /\ opened = FALSE
    /\ file = OldContent
    /\ single_dir = 1
    /\ messages = <<>>
    /\ reader_message = <<>>
    /\ msg = NoMsg
    /\ globbed = <<>>
    /\ readlog = <<>>

\* a run of main() over one to MaxDirs --in_dir arguments (nargs='+')
Init == InitWith(UNION {InDirs(n, MaxFiles) : n \in 1..MaxDirs}, Extensions)

Spec == Init /\ [][Next]_vars

\* runs over one file whose content varies around the TEL marker
InitTel == InitWith(OneFile({c \o BodyLines : c \in Compose(TelFrags, MaxFrags)}),
                    {".txt"})

SpecTel == InitTel /\ [][Next]_vars

\* runs over one file whose content varies around the X-NOK-DT marker
InitDate == InitWith(OneFile({TelLine \o c \o t : c \in Compose(DateFrags, MaxFrags),
                                                  t \in {<<>>, BodyLines}}),
                     {".txt"})

SpecDate == InitDate /\ [][Next]_vars

\* runs over one file whose content varies around the Date: line and END:VBODY
InitBody == InitWith(OneFile({TelLine \o c : c \in Compose(BodyFrags, MaxFrags)}),
                     {".txt"})

SpecBody == InitBody /\ [][Next]_vars

----------------------------------------------------------------------------
(* What the properties below speak of *)

\* the elements of a set of numbers in increasing order
Ascending(S) ==
    [n \in 1..Cardinality(S) |-> CHOOSE x \in S : Cardinality({y \in S : y < x}) = n - 1]

\* the records directory k contributes: its files with a contact and a body,
\* ordered by date, files of equal date in enumeration order
Contribution(k) == SortByDate(Retained(k, Len(in_dir[k].files)))

\* the records of the first n directories, directory after directory
RetainedUpTo(n) == Flatten([k \in 1..n |-> Contribution(k)])

\* the number of write() calls made so far
Passes ==
    IF pc = "done" THEN Len(in_dir)
    ELSE IF pc \in {"processdir", "write"} THEN single_dir - 1
    ELSE 0

\* a reading of a csv file (RFC 4180): a character is inside a quoted field
\* when an odd number of quote characters precedes it
Quote == "\""
QuotesBefore(s, i) == Cardinality({j \in 1..(i - 1) : s[j] = Quote})
Unquoted(s, i) == QuotesBefore(s, i) % 2 = 0

\* a field as read: without its enclosing quotes, each doubled quote once
CsvUnquote(f) ==
    IF Len(f) >= 2 /\ f[1] = Quote /\ f[Len(f)] = Quote
    THEN LET inner == SubSeq(f, 2, Len(f) - 1)
         IN  Flatten([j \in 1..Len(inner) |->
                         IF inner[j] = Quote /\ QuotesBefore(inner, j) % 2 = 1
                         THEN <<>> ELSE <<inner[j]>>])
    ELSE f

\* the fields of the row s[lo..hi]
CsvFields(s, lo, hi) ==
    LET commas == Ascending({i \in lo..hi : s[i] = "," /\ Unquoted(s, i)})
        n == Len(commas)
        from(f) == IF f = 1 THEN lo ELSE commas[f - 1] + 1
        to(f) == IF f = n + 1 THEN hi ELSE commas[f] - 1
    IN  [f \in 1..(n + 1) |-> CsvUnquote(SubSeq(s, from(f), to(f)))]

\* the rows of a csv file; a row ends with a line break outside quotes
CsvRead(s) ==
    LET breaks == Ascending({i \in 1..Len(s) : s[i] = "\n" /\ Unquoted(s, i)})
        from(r) == IF r = 1 THEN 1 ELSE breaks[r - 1] + 1
        to(r) == IF breaks[r] > 1 /\ s[breaks[r] - 1] = "\r"
                 THEN breaks[r] - 2 ELSE breaks[r] - 1
    IN  [r \in 1..Len(breaks) |-> CsvFields(s, from(r), to(r))]

Triple(m) == <<m.contact, m.date, m.body>>

\* the three elements that follow each occurrence of a template piece: the
\* paths of the records a txt or xml file holds, in order
PathsAfter(s, piece) ==
    LET at == Ascending({i \in 1..Len(s) : s[i] = piece})
    IN  [n \in 1..Len(at) |-> SubSeq(s, at[n] + 1, at[n] + 3)]

\* the records an output file holds: paths for txt and xml, the rows that are
\* not a header row for csv
RecordsIn(kind, s) ==
    IF kind = "txt" THEN PathsAfter(s, TxtHead)
    ELSE IF kind = "xml" THEN PathsAfter(s, XmlFile)
    ELSE SelectSeq(CsvRead(s), LAMBDA row : row # CsvHeader)

RecordsOf(kind, ms) ==
    IF kind = "csv" THEN [j \in 1..Len(ms) |-> Triple(ms[j])]
    ELSE [j \in 1..Len(ms) |-> ms[j].file]

\* the texts inside the body elements of an xml file, in order
XmlBodies(s) ==
    LET at == Ascending({i \in 1..Len(s) : s[i] = XmlBody})
        foot(i) == Min({j \in i..Len(s) : s[j] = XmlFoot})
    IN  [n \in 1..Len(at) |-> SubSeq(s, at[n] + 1, foot(at[n]) - 1)]

\* a body with each of & < > " replaced by its entity
Escaped(body) ==
    Flatten([j \in 1..Len(body) |->
                IF body[j] = "&" THEN AmpEntity
                ELSE IF body[j] = "<" THEN LtEntity
                ELSE IF body[j] = ">" THEN GtEntity
                ELSE IF body[j] = Quote THEN QuotEntity
                ELSE <<body[j]>>])

EpochString ==
    <<"1", "9", "7", "0", "-", "0", "1", "-", "0", "1", " ",
      "0", "0", ":", "0", "0", ":", "0", "0">>

----------------------------------------------------------------------------
(* Properties *)

\* C1: when processdir has returned, self.messages is in ascending order of
\* the formatted date strings, and two records of equal date stand in the
\* order in which their files were enumerated.
C1_SortedStable ==
    pc = "write" =>
        \A a, b \in 1..Len(messages) :
            a < b =>
                /\ ~StrLess(messages[b].date, messages[a].date)
                /\ messages[a].date = messages[b].date
                       => FileIndex(messages[a].file) < FileIndex(messages[b].file)

\* C1, its case: the sort has moved a later file's record in front of an
\* earlier file's record of a greater date
C1_Witness ==
    /\ pc = "write"
    /\ Len(messages) = 2
    /\ StrLess(messages[1].date, messages[2].date)
    /\ FileIndex(messages[1].file) > FileIndex(messages[2].file)

\* C2: a file of the directory is in self.messages, once, if and only if its
\* contact and its body are not empty, whatever its timestamp; every file of
\* the directory has been read, those after a skipped one too; and when the
\* run is over the output holds exactly the retained records, for each kind
\* of writer.
C2_RetainedIffContactAndBody ==
    /\ pc = "write" =>
         LET files == in_dir[single_dir].files
             data(j) == process(read(files[j]))
             places(j) == {a \in 1..Len(messages) : messages[a].file = glob(single_dir)[j]}
         IN  /\ \A j \in 1..Len(files) :
                    /\ Cardinality(places(j)) <= 1
                    /\ places(j) # {} <=> (data(j).contact # <<>> /\ data(j).body # <<>>)
             /\ Len(messages) <= Len(files)
             /\ \A j \in 1..Len(files) :
                    \E n \in 1..Len(readlog) : readlog[n] = glob(single_dir)[j]
             /\ error = "none"
    /\ pc = "done" =>
         RecordsIn(writer, file) = RecordsOf(writer, RetainedUpTo(Len(in_dir)))

\* C2, its case: a file with a valid timestamp was skipped for its missing
\* contact, and the file enumerated after it is retained
C2_Witness ==
    /\ pc = "write"
    /\ Len(in_dir[single_dir].files) = 2
    /\ process(read(in_dir[single_dir].files[1])).contact = <<>>
    /\ process(read(in_dir[single_dir].files[1])).date # Epoch
    /\ Len(messages) = 1
    /\ messages[1].file = glob(single_dir)[2]

\* the text holds no X-NOK-DT: marker
MarkerAbsent(s) == \A i \in 1..Len(s) : ~StartsWithAt(s, i, DateMarker)

\* the token captured after a marker is not a YYYYMMDDTHHMMSSZ timestamp
TokenMalformed(s) == DateSearch(s) # <<>> /\ ~strptime(DateSearch(s)).ok

C4_DirectoryBlocksInOrder ==
    opened =>
        file = Flatten([k \in 1..Passes |-> WriteOut(writer, Contribution(k))])

\* C4, its case: two directories with overlapping dates, the first one's
\* record dated after the second one's
C4_Witness ==
    /\ pc = "done"
    /\ Len(in_dir) = 2
    /\ Len(Contribution(1)) >= 1
    /\ Len(Contribution(2)) >= 1
    /\ StrLess(Contribution(2)[1].date, Contribution(1)[1].date)

BadArguments ==
    \/ KindOf(out_ext) = "none"
    \/ \E k \in 1..Len(in_dir) : ~in_dir[k].isdir

\* C5: with an unsupported extension or an --in_dir that is no directory the
\* run never enumerates a directory, never reads a file and never opens the
\* output file, which keeps its content; with a path that is no directory it
\* does not get as far as choosing the writer.
C5_AbortBeforeProcessing ==
    BadArguments =>
        /\ ~opened
        /\ file = OldContent
        /\ globbed = <<>>
        /\ readlog = <<>>
        /\ pc \in {"read_cmd_args", "select_writer", "failed"}
        /\ (\E k \in 1..Len(in_dir) : ~in_dir[k].isdir) => pc # "select_writer"

\* C5, its case: the run has failed on a path that is no directory, with a
\* supported extension and a directory with files among the arguments
C5_Witness ==
    /\ pc = "failed"
    /\ error = "NotADirectoryError"
    /\ KindOf(out_ext) # "none"
    /\ \E k \in 1..Len(in_dir) : in_dir[k].isdir /\ Len(in_dir[k].files) > 0

\* C6: read back with a csv reader, the csv output of a run is one header row
\* followed by one row per retained record, with that record's contact, date
\* and body.
C6_CsvRoundTrip ==
    (pc = "done" /\ writer = "csv") =>
        CsvRead(file) = <<CsvHeader>> \o RecordsOf("csv", RetainedUpTo(Len(in_dir)))

\* C7: in the xml output the text of each record's body element is the body
\* with & < > " replaced by their entities, nothing lost and nothing cut.
C7_XmlBodyEscaped ==
    (pc = "done" /\ writer = "xml") =>
        LET ms == RetainedUpTo(Len(in_dir))
        IN  XmlBodies(file) = [j \in 1..Len(ms) |-> Escaped(ms[j].body)]

\* C8: the xml output of a run is one root element, <messages> first and
\* </messages> last, with every message element between them.
C8_OneXmlRoot ==
    (pc = "done" /\ writer = "xml") =>
        /\ Cardinality({i \in 1..Len(file) : file[i] = XmlRootOpen}) = 1
        /\ Cardinality({i \in 1..Len(file) : file[i] = XmlRootClose}) = 1
        /\ file[1] = XmlRootOpen
        /\ file[Len(file)] = XmlRootClose

\* the token after the TEL: that starts at index i: a run of word characters,
\* or a plus sign and a run of digits; <<>> if there is neither
TelToken(s, i) ==
    LET p == i + 4
        q == CHOOSE e \in p..(Len(s) + 1) :
                 /\ \A j \in p..(e - 1) : s[j] \in WordChars
                 /\ e > Len(s) \/ s[e] \notin WordChars
        r == CHOOSE e \in (p + 1)..(Len(s) + 1) :
                 /\ \A j \in (p + 1)..(e - 1) : s[j] \in Digits
                 /\ e > Len(s) \/ s[e] \notin Digits
    IN  IF p > Len(s) THEN <<>>
        ELSE IF s[p] \in WordChars THEN SubSeq(s, p, q - 1)
        ELSE IF s[p] = "+" /\ r > p + 1 THEN SubSeq(s, p, r - 1)
        ELSE <<>>

TelPlaces(s) == {i \in 1..Len(s) : StartsWithAt(s, i, TelMarker)}

\* C9: reader.message is the file without its NUL characters, and the
\* contact is the token at the first TEL: that has one, the empty string if
\* none has.
C9_ContactIsFirstToken ==
    pc \in {"write", "done"} =>
        LET s == reader_message
            with == {i \in TelPlaces(s) : TelToken(s, i) # <<>>}
        IN  /\ s = SelectSeq(in_dir[1].files[1], LAMBDA c : c # NUL)
            /\ msg.contact = IF with = {} THEN <<>> ELSE TelToken(s, Min(with))

\* C9, its case: the first TEL: has no token, a later one has
C9_Witness ==
    /\ pc = "done"
    /\ TelPlaces(reader_message) # {}
    /\ TelToken(reader_message, Min(TelPlaces(reader_message))) = <<>>
    /\ msg.contact # <<>>

\* where the first Date: line ends: the index after the line break of the
\* first Date: that is followed by digits, dots, colons or spaces and a line
\* break; 0 if there is none
AfterDateLine(s) ==
    LET lines == {i \in 1..Len(s) : BodyGroupStart(s, i) # 0}
    IN  IF lines = {} THEN 0 ELSE BodyGroupStart(s, Min(lines))

\* C10: the body is the text from the line after the first Date: line up to
\* the first END:VBODY that follows, and holds no END:VBODY.
C10_BodyStopsAtFirstEnd ==
    pc \in {"write", "done"} =>
        LET s == reader_message
            g == AfterDateLine(s)
            ends == {p \in g..Len(s) : StartsWithAt(s, p, EndBody)}
        IN  /\ msg.body = IF g = 0 \/ ends = {} THEN <<>>
                          ELSE SubSeq(s, g, Min(ends) - 1)
            /\ \A p \in 1..Len(msg.body) : ~StartsWithAt(msg.body, p, EndBody)

====
